---- MODULE Spec2Model ----
(***************************************************************************)
(* Booking lifecycle, driver-bid negotiation and payment reconciliation of *)
(* the carpooling backend (src/src/controllers/tripController.js,          *)
(* src/src/controllers/paymentController.js, src/unnamed/part_002).        *)
(*                                                                         *)
(* One booking (a Trip document) and the Payment documents that reference  *)
(* it are modelled.  Every request handler is a pure function from the     *)
(* document it loaded to an HTTP status and the document it saves.  Spec   *)
(* runs each booking handler as one step, SpecPay the payment handlers;    *)
(* SpecConc splits a handler at its awaits into the load (Trip.findById)   *)
(* and the write (trip.save()).                                            *)
(***************************************************************************)
EXTENDS Integers, Sequences, FiniteSets, TLC

VARIABLES trip, payments, inflight

vars == <<trip, payments, inflight>>

(***************************************************************************)
(* Bounds of the model.                                                    *)
(***************************************************************************)
MaxBids == 2

MaxPayments == 1

Slots == {1, 2}

Prices == {1, 2}

(***************************************************************************)
(* Users (User documents): role and vehicle registration.                  *)
(***************************************************************************)
Users == {"p1", "d1", "d2", "d3", "adm"}

NoUser == "none"

Role(u) ==
    CASE u = "p1" -> "both"
      [] u = "adm" -> "admin"
      [] OTHER -> "driver"

\* vehicle.licensePlate is present
HasLicensePlate(u) == u \in {"p1", "d1", "d2"}

\* vehicle.seats
VehicleSeats(u) ==
    CASE u = "p1" -> 5
      [] u = "d1" -> 4
      [] u = "d2" -> 2
      [] u = "d3" -> 7
      [] OTHER -> 0

\* vehicle.brand contains one of the luxury brands
LuxuryBrand(u) == u = "d3"

TripStatuses == {"pending_driver", "confirmed", "paid", "in_progress", "completed", "cancelled"}

BidStatuses == {"pending", "accepted", "declined"}

\* middleware requireDriver
RequireDriver(u) == Role(u) \in {"driver", "both"}

(***************************************************************************)
(* The Trip document right after createTrip by requester p1.               *)
(***************************************************************************)
NewTrip(maxPrice) ==
    [exists |-> TRUE,
     requestedBy |-> "p1",
     driver |-> NoUser,
     status |-> "pending_driver",
     price |-> 0,
     maxPrice |-> maxPrice,
     availableSeats |-> 1,
     driverRequests |-> << >>,
     passengers |-> << >>,
     vehicleTypeUsed |-> "unset",
     confirmedAt |-> FALSE,
     cancellationReason |-> "unset",
     actualDepartureTime |-> FALSE,
     actualArrivalTime |-> FALSE,
     v |-> 0]

NotificationTypes ==
    {"trip_request", "request_accepted", "request_declined", "trip_cancelled",
     "trip_updated", "trip_started", "trip_completed", "new_rating", "system", "message"}

\* Notification.create succeeds: recipient is required and type is in the enum
NotificationValid(n) == n.recipient # NoUser /\ n.type \in NotificationTypes

\* trip.passengers.filter((p) => p.status === 'accepted')
AcceptedPassengers(t) ==
    {i \in DOMAIN t.passengers : t.passengers[i].status = "accepted"}

\* one notification of the given type per accepted passenger
NotifyPassengers(t, type) ==
    {[recipient |-> t.passengers[i].user, type |-> type] : i \in AcceptedPassengers(t)}

(***************************************************************************)
(* A handler's outcome: the HTTP status it answers when everything after   *)
(* its checks succeeds, the document it hands to trip.save() (the loaded   *)
(* document when it returns before saving) and the notifications it        *)
(* creates after the save.                                                 *)
(***************************************************************************)
Out(code, doc) == [res |-> code, doc |-> doc, notify |-> {}]

OutNotify(code, doc, notify) == [res |-> code, doc |-> doc, notify |-> notify]

(***************************************************************************)
(* trip.save(): mongoose writes the paths modified since the load.  A      *)
(* modified field of an array element is a positional $set and makes the   *)
(* update conditional on the loaded __v; pushed elements are a $push and   *)
(* increment __v.                                                          *)
(***************************************************************************)
ScalarPaths ==
    {"requestedBy", "driver", "status", "price", "maxPrice", "availableSeats",
     "vehicleTypeUsed", "confirmedAt", "cancellationReason",
     "actualDepartureTime", "actualArrivalTime"}

ArrayPaths == {"driverRequests", "passengers"}

PositionalSet(snap, doc) ==
    \E a \in ArrayPaths : \E i \in DOMAIN snap[a] : doc[a][i] # snap[a][i]

Pushed(snap, doc) ==
    \E a \in ArrayPaths : Len(doc[a]) > Len(snap[a])

MergeElement(storedEl, snapEl, docEl) ==
    [f \in DOMAIN docEl |-> IF docEl[f] # snapEl[f] THEN docEl[f] ELSE storedEl[f]]

MergeArray(storedArr, snapArr, docArr) ==
    [i \in DOMAIN storedArr |->
        IF i \in DOMAIN snapArr
        THEN MergeElement(storedArr[i], snapArr[i], docArr[i])
        ELSE storedArr[i]]
    \o SubSeq(docArr, Len(snapArr) + 1, Len(docArr))

VersionWhere(stored, snap, doc) ==
    PositionalSet(snap, doc) => stored.v = snap.v

MergeDoc(stored, snap, doc) ==
    [f \in DOMAIN stored |->
        IF f \in ScalarPaths THEN (IF doc[f] # snap[f] THEN doc[f] ELSE stored[f])
        ELSE IF f \in ArrayPaths THEN MergeArray(stored[f], snap[f], doc[f])
        ELSE IF f = "v" THEN (IF Pushed(snap, doc) THEN stored.v + 1 ELSE stored.v)
        ELSE stored[f]]

Save(stored, snap, doc) ==
    IF doc = snap THEN [ok |-> TRUE, doc |-> stored]
    ELSE IF ~stored.exists THEN [ok |-> FALSE, doc |-> stored]
    ELSE IF ~VersionWhere(stored, snap, doc) THEN [ok |-> FALSE, doc |-> stored]
    ELSE [ok |-> TRUE, doc |-> MergeDoc(stored, snap, doc)]

\* Notification.create resolves: the notification store takes the write
\* (up) and the document passes the schema's validation
Created(n, up) == up /\ NotificationValid(n)

\* the handler's try/catch around save() and the notifications after it: a
\* rejected Notification.create is thrown inside the same try and answered
\* by the catch
RunWith(stored, snap, o, up) ==
    LET s == Save(stored, snap, o.doc)
    IN  IF ~s.ok THEN [res |-> "500", doc |-> stored]
        ELSE IF \E n \in o.notify : ~Created(n, up) THEN [res |-> "500", doc |-> s.doc]
        ELSE [res |-> o.res, doc |-> s.doc]

\* the handler with the notification store working
Run(stored, snap, o) == RunWith(stored, snap, o, TRUE)

(***************************************************************************)
(* driverRequestBooking                                                    *)
(***************************************************************************)
ExistingRequest(t, d) ==
    \E i \in DOMAIN t.driverRequests : t.driverRequests[i].driver = d

ExceedsBudget_Unchecked(t, proposedPrice) == FALSE

ExceedsBudget(t, proposedPrice) ==
    t.maxPrice # 0 /\ proposedPrice > t.maxPrice

NewDriverRequest(d, proposedPrice) ==
    [driver |-> d, proposedPrice |-> proposedPrice, status |-> "pending", respondedAt |-> FALSE]

driverRequestBooking_AnyStatus(t, d, proposedPrice) ==
    IF ~t.exists THEN Out("404", t)
    ELSE IF ExistingRequest(t, d) THEN Out("400", t)
    ELSE IF Role(d) \notin {"driver", "both"} THEN Out("403", t)
    ELSE IF ~HasLicensePlate(d) THEN Out("400", t)
    ELSE IF ExceedsBudget(t, proposedPrice) THEN Out("400", t)
    ELSE Out("200", [t EXCEPT !.driverRequests = Append(@, NewDriverRequest(d, proposedPrice))])

driverRequestBooking(t, d, proposedPrice) ==
    IF ~t.exists THEN Out("404", t)
    ELSE IF t.status # "pending_driver" THEN Out("400", t)
    ELSE IF ExistingRequest(t, d) THEN Out("400", t)
    ELSE IF Role(d) \notin {"driver", "both"} THEN Out("403", t)
    ELSE IF ~HasLicensePlate(d) THEN Out("400", t)
    ELSE IF ExceedsBudget(t, proposedPrice) THEN Out("400", t)
    ELSE Out("200", [t EXCEPT !.driverRequests = Append(@, NewDriverRequest(d, proposedPrice))])

(***************************************************************************)
(* respondToDriverRequest                                                  *)
(***************************************************************************)
VehicleTypeOf(d) ==
    IF LuxuryBrand(d) THEN "luxury"
    ELSE IF VehicleSeats(d) <= 2 THEN "motorcycle"
    ELSE IF VehicleSeats(d) > 5 THEN "suv"
    ELSE "car"

Responded(r, status) == [r EXCEPT !.status = status, !.respondedAt = TRUE]

DeclineOthers_Skipped(reqs, requestId) == reqs

DeclineOthers(reqs, requestId) ==
    [j \in DOMAIN reqs |->
        IF j # requestId /\ reqs[j].status = "pending"
        THEN Responded(reqs[j], "declined")
        ELSE reqs[j]]

AcceptBranch(t, requestId) ==
    LET accepted == [t.driverRequests EXCEPT ![requestId] = Responded(@, "accepted")]
        req == t.driverRequests[requestId]
    IN  [t EXCEPT !.status = "confirmed",
                  !.driver = req.driver,
                  !.price = req.proposedPrice,
                  !.confirmedAt = TRUE,
                  !.vehicleTypeUsed = VehicleTypeOf(req.driver),
                  !.driverRequests = DeclineOthers(accepted, requestId)]

DeclineBranch_ClosesBooking(t, requestId) ==
    [t EXCEPT !.driverRequests[requestId] = Responded(@, "declined"),
              !.status = "cancelled"]

DeclineBranch(t, requestId) ==
    [t EXCEPT !.driverRequests[requestId] = Responded(@, "declined")]

respondToDriverRequest_AnyCaller(t, u, requestId, action) ==
    IF ~t.exists THEN Out("404", t)
    ELSE IF t.status # "pending_driver" THEN Out("400", t)
    ELSE IF requestId \notin DOMAIN t.driverRequests THEN Out("404", t)
    ELSE IF t.driverRequests[requestId].status # "pending" THEN Out("400", t)
    ELSE IF action = "accept" THEN Out("200", AcceptBranch(t, requestId))
    ELSE IF action = "decline" THEN Out("200", DeclineBranch(t, requestId))
    ELSE Out("400", t)

respondToDriverRequest(t, u, requestId, action) ==
    IF ~t.exists THEN Out("404", t)
    ELSE IF t.requestedBy # u THEN Out("403", t)
    ELSE IF t.status # "pending_driver" THEN Out("400", t)
    ELSE IF requestId \notin DOMAIN t.driverRequests THEN Out("404", t)
    ELSE IF t.driverRequests[requestId].status # "pending" THEN Out("400", t)
    ELSE IF action = "accept" THEN Out("200", AcceptBranch(t, requestId))
    ELSE IF action = "decline" THEN Out("200", DeclineBranch(t, requestId))
    ELSE Out("400", t)

(***************************************************************************)
(* cancelTrip (driver), cancelTrip (admin), updateTripStatus, completeTrip *)
(***************************************************************************)
Reasons == {"unset", "given"}

\* cancellationReason = reason; an absent reason leaves the field as loaded
WithReason(t, reason) ==
    IF reason = "unset" THEN t.cancellationReason ELSE "by_driver"

cancelTrip(t, u, reason) ==
    IF ~t.exists THEN Out("404", t)
    ELSE IF t.driver = NoUser THEN Out("500", t)
    ELSE IF t.driver # u THEN Out("403", t)
    ELSE IF t.status = "completed" THEN Out("400", t)
    ELSE IF t.status = "cancelled" THEN Out("400", t)
    ELSE LET doc == [t EXCEPT !.status = "cancelled",
                              !.cancellationReason = WithReason(t, reason)]
         IN  OutNotify("200", doc, NotifyPassengers(doc, "trip_cancelled"))

adminCancelTrip(t, u, reason) ==
    IF Role(u) # "admin" THEN Out("403", t)
    ELSE IF reason = "unset" THEN Out("400", t)
    ELSE IF ~t.exists THEN Out("404", t)
    ELSE IF t.status = "cancelled" THEN Out("400", t)
    ELSE IF t.status = "completed" THEN Out("400", t)
    ELSE LET doc == [t EXCEPT !.status = "cancelled", !.cancellationReason = "by_admin"]
         IN  OutNotify("200", doc,
                       {[recipient |-> doc.driver, type |-> "trip_cancelled"]}
                           \cup NotifyPassengers(doc, "trip_cancelled"))

RequestableStatuses == {"scheduled", "in_progress", "completed", "cancelled"}

\* the schema's enum validator of Trip.status, run by save()
StatusValid(status) == status \in TripStatuses

StatusChange(t, status) ==
    IF StatusValid(status) THEN [t EXCEPT !.status = status] ELSE t

updateTripStatus(t, u, status) ==
    IF status \notin {"scheduled", "in_progress", "completed", "cancelled"} THEN Out("400", t)
    ELSE IF ~t.exists THEN Out("404", t)
    ELSE IF t.driver = NoUser THEN Out("500", t)
    ELSE IF t.driver # u THEN Out("403", t)
    ELSE IF status = "in_progress" /\ t.status # "scheduled" THEN Out("400", t)
    ELSE IF status = "completed" /\ t.status # "in_progress" THEN Out("400", t)
    ELSE IF status = "cancelled" /\ t.status \in {"completed", "cancelled"} THEN Out("400", t)
    ELSE IF ~StatusValid(status) THEN Out("500", t)
    ELSE LET stamped == [t EXCEPT !.actualDepartureTime = (@ \/ status = "in_progress"),
                                  !.actualArrivalTime = (@ \/ status = "completed")]
             doc == StatusChange(stamped, status)
         IN  OutNotify("200", doc, NotifyPassengers(doc, "trip_" \o status))

completeTrip(t, u) ==
    IF ~t.exists THEN Out("404", t)
    ELSE IF t.driver = NoUser THEN Out("500", t)
    ELSE IF t.driver # u THEN Out("403", t)
    ELSE IF t.status # "in_progress" THEN Out("400", t)
    ELSE LET doc == [t EXCEPT !.status = "completed", !.actualArrivalTime = TRUE]
         IN  OutNotify("200", doc, NotifyPassengers(doc, "trip_completed"))

(***************************************************************************)
(* updateTrip: the handler's checks on the loaded document, then           *)
(* Trip.findByIdAndUpdate(id, req.body, {runValidators}): a $set of the    *)
(* body's fields on the stored document.                                   *)
(***************************************************************************)
IsRequester(t, u) == t.requestedBy # NoUser /\ t.requestedBy = u

IsDriver(t, u) == t.driver # NoUser /\ t.driver = u

updateTripCheck(t, u) ==
    IF ~t.exists THEN "404"
    ELSE IF ~IsRequester(t, u) /\ ~IsDriver(t, u) THEN "403"
    ELSE IF t.status = "pending_driver" /\ ~IsRequester(t, u) THEN "403"
    ELSE IF t.status \in {"confirmed", "paid", "in_progress"} /\ ~IsDriver(t, u) THEN "403"
    ELSE IF t.status \in {"completed", "cancelled"} THEN "400"
    ELSE "200"

\* request bodies: one schema path each (notes stands for a path outside the model)
Bodies ==
    [path : {"status"}, value : TripStatuses \cup {"scheduled"}]
        \cup [path : {"price"}, value : {0} \cup Prices]
        \cup [path : {"driverRequests"}, index : 1..MaxBids, value : {"accepted"}]
        \cup [path : {"notes"}]

\* runValidators: the enum of status
BodyValid(body) == body.path = "status" => StatusValid(body.value)

\* the driverRequests array a client sends back with one status edited
EditedRequests(reqs, body) ==
    IF body.index \in DOMAIN reqs
    THEN [reqs EXCEPT ![body.index].status = body.value]
    ELSE reqs

FindByIdAndUpdate(stored, body) ==
    CASE body.path = "status" -> [stored EXCEPT !.status = body.value]
      [] body.path = "price" -> [stored EXCEPT !.price = body.value]
      [] body.path = "driverRequests" ->
            [stored EXCEPT !.driverRequests = EditedRequests(@, body)]
      [] OTHER -> stored

\* the update as issued after the checks passed on the loaded document
updateTrip(stored, snap, u, body) ==
    IF updateTripCheck(snap, u) # "200" THEN [res |-> updateTripCheck(snap, u), doc |-> stored]
    ELSE IF ~BodyValid(body) THEN [res |-> "500", doc |-> stored]
    ELSE IF ~stored.exists THEN [res |-> "500", doc |-> stored]
    ELSE [res |-> "200", doc |-> FindByIdAndUpdate(stored, body)]

\* updateTrip with the notifications it creates for the updated booking's
\* accepted passengers after the update, inside the same try
updateTripNotified(stored, snap, u, body, up) ==
    LET r == updateTrip(stored, snap, u, body)
    IN  IF r.res = "200" /\ \E n \in NotifyPassengers(r.doc, "trip_updated") : ~Created(n, up)
        THEN [res |-> "500", doc |-> r.doc]
        ELSE r

(***************************************************************************)
(* deleteTrip: checks, then trip.remove()                                  *)
(***************************************************************************)
\* no document is stored under the booking's id any more
Removed == [NewTrip(0) EXCEPT !.exists = FALSE]

deleteTripCheck(t, u) ==
    IF ~t.exists THEN "404"
    ELSE IF ~IsRequester(t, u) /\ ~IsDriver(t, u) THEN "403"
    ELSE IF t.status = "pending_driver" /\ ~IsRequester(t, u) THEN "403"
    ELSE IF t.status \in {"paid", "in_progress", "completed"} THEN "400"
    ELSE "200"

deleteTrip(stored, snap, u) ==
    IF deleteTripCheck(snap, u) # "200" THEN [res |-> deleteTripCheck(snap, u), doc |-> stored]
    ELSE [res |-> "200", doc |-> Removed]

(***************************************************************************)
(* Payments: createPayment, vnpayReturn, cancelPayment.  A Payment is      *)
(* found by its position (its _id and its vnpTxnRef); expired is           *)
(* Payment.isExpired, expiredAt < now.                                     *)
(***************************************************************************)
Payers == {"p1", "d2"}

NewPayment(u) ==
    [user |-> u, status |-> "pending", expired |-> FALSE,
     completedAt |-> FALSE, note |-> "unset"]

\* Payment.findOne({user, trip, status: {$in: ['pending', 'completed']}})
ExistingPayments(pays, u) ==
    {i \in DOMAIN pays : pays[i].user = u /\ pays[i].status \in {"pending", "completed"}}

FirstOf(S) == CHOOSE i \in S : \A j \in S : i <= j

BlockedByExisting(pays, u) ==
    /\ ExistingPayments(pays, u) # {}
    /\ LET existing == pays[FirstOf(ExistingPayments(pays, u))]
       IN  \/ existing.status = "completed"
           \/ existing.status = "pending" /\ ~existing.expired

\* acceptedPassengers >= trip.availableSeats
TripFull(t) == Cardinality(AcceptedPassengers(t)) >= t.availableSeats

createPayment(t, pays, u) ==
    IF ~t.exists THEN [res |-> "404", pays |-> pays]
    ELSE IF t.driver = NoUser THEN [res |-> "500", pays |-> pays]
    ELSE IF t.driver = u THEN [res |-> "400", pays |-> pays]
    ELSE IF BlockedByExisting(pays, u) THEN [res |-> "400", pays |-> pays]
    ELSE IF TripFull(t) THEN [res |-> "400", pays |-> pays]
    ELSE [res |-> "200", pays |-> Append(pays, NewPayment(u))]

\* vnp_ResponseCode and vnp_TransactionStatus of a callback
ResponseCodes == {"00", "24"}

\* VNPayHelper.isSuccessTransaction
IsSuccessTransaction(responseCode, transactionStatus) ==
    responseCode = "00" /\ transactionStatus = "00"

\* VNPayHelper.getStatusMessage: the message listed for the code
GetStatusMessage(responseCode) ==
    CASE responseCode = "00" -> "Giao dich thanh cong"
      [] responseCode = "24" -> "Khach hang huy giao dich"
      [] OTHER -> "Loi khong xac dinh"

PassengerOf(t, u) == {i \in DOMAIN t.passengers : t.passengers[i].user = u}

PaidPassenger_Unpaid(u, paymentId) ==
    [user |-> u, status |-> "accepted", paymentStatus |-> "pending", paymentId |-> paymentId]

PaidPassenger(u, paymentId) ==
    [user |-> u, status |-> "accepted", paymentStatus |-> "completed", paymentId |-> paymentId]

AddPaidPassenger_Appends(t, u, paymentId) ==
    [t EXCEPT !.passengers = Append(@, PaidPassenger(u, paymentId))]

\* the roster update of vnpayReturn's success branch on the populated payment.trip
AddPaidPassenger(t, u, paymentId) ==
    IF PassengerOf(t, u) = {}
    THEN [t EXCEPT !.passengers = Append(@, PaidPassenger(u, paymentId))]
    ELSE [t EXCEPT !.passengers[FirstOf(PassengerOf(t, u))] = PaidPassenger(u, paymentId)]

markAsCompleted(pay) == [pay EXCEPT !.status = "completed", !.completedAt = TRUE]

markAsFailed_NoReason(pay, reason) == [pay EXCEPT !.status = "failed"]

markAsFailed(pay, reason) == [pay EXCEPT !.status = "failed", !.note = reason]

\* a callback: signature verdict, vnp_TxnRef (the last one is the reference of no
\* Payment), vnp_ResponseCode, vnp_TransactionStatus
Callbacks ==
    [isValid : BOOLEAN, txnRef : 1..(MaxPayments + 1),
     responseCode : ResponseCodes, transactionStatus : ResponseCodes]

vnpayReturn_Unverified(t, pays, cb) ==
    IF cb.txnRef \notin DOMAIN pays THEN [res |-> "error", pays |-> pays, doc |-> t]
    ELSE IF IsSuccessTransaction(cb.responseCode, cb.transactionStatus)
         THEN [res |-> "success", pays |-> [pays EXCEPT ![cb.txnRef] = markAsCompleted(@)],
               doc |-> IF t.exists THEN AddPaidPassenger(t, pays[cb.txnRef].user, cb.txnRef) ELSE t]
         ELSE [res |-> "failed",
               pays |-> [pays EXCEPT ![cb.txnRef] =
                                         markAsFailed(@, GetStatusMessage(cb.responseCode))],
               doc |-> t]

vnpayReturn(t, pays, cb) ==
    IF ~cb.isValid THEN [res |-> "error", pays |-> pays, doc |-> t]
    ELSE IF cb.txnRef \notin DOMAIN pays THEN [res |-> "error", pays |-> pays, doc |-> t]
    ELSE IF IsSuccessTransaction(cb.responseCode, cb.transactionStatus)
         THEN LET paid == [pays EXCEPT ![cb.txnRef] = markAsCompleted(@)]
              IN  IF ~t.exists THEN [res |-> "error", pays |-> paid, doc |-> t]
                  ELSE [res |-> "success", pays |-> paid,
                        doc |-> AddPaidPassenger(t, pays[cb.txnRef].user, cb.txnRef)]
         ELSE [res |-> "failed",
               pays |-> [pays EXCEPT ![cb.txnRef] =
                                         markAsFailed(@, GetStatusMessage(cb.responseCode))],
               doc |-> t]

\* what is stored after the callback: payment.save() and trip.save()
Settled(t, pays, cb) ==
    LET o == vnpayReturn(t, pays, cb)
    IN  [res |-> o.res, pays |-> o.pays, doc |-> Save(t, t, o.doc).doc]

cancelPayment_AnyStatus(pays, u, id) ==
    IF id \notin DOMAIN pays THEN [res |-> "404", pays |-> pays]
    ELSE IF pays[id].user # u THEN [res |-> "403", pays |-> pays]
    ELSE [res |-> "200", pays |-> [pays EXCEPT ![id].status = "cancelled"]]

cancelPayment(pays, u, id) ==
    IF id \notin DOMAIN pays THEN [res |-> "404", pays |-> pays]
    ELSE IF pays[id].user # u THEN [res |-> "403", pays |-> pays]
    ELSE IF pays[id].status # "pending" THEN [res |-> "400", pays |-> pays]
    ELSE [res |-> "200", pays |-> [pays EXCEPT ![id].status = "cancelled"]]

\* the pending payments whose expiredAt the clock has not passed yet
NotExpired(pays) == {i \in DOMAIN pays : pays[i].status = "pending" /\ ~pays[i].expired}

Init ==
    /\ \E m \in {0, 1} : trip = NewTrip(m)
    /\ payments = << >>
    /\ inflight = [s \in Slots |-> [op |-> "idle"]]

(***************************************************************************)
(* Spec: every booking handler runs from its load to its response as one   *)
(* step.                                                                   *)
(***************************************************************************)
\* a request that changes nothing is a stuttering step
Answer(r) ==
    /\ r.doc # trip
    /\ trip' = r.doc
    /\ UNCHANGED <<payments, inflight>>

DriverRequestBooking ==
    \E d \in Users, p \in Prices :
        LET o == driverRequestBooking(trip, d, p)
        IN  /\ RequireDriver(d)
            /\ Len(trip.driverRequests) < MaxBids
            /\ Answer(Run(trip, trip, o))

RespondToDriverRequest ==
    \E u \in Users, i \in 1..MaxBids, action \in {"accept", "decline", "other"} :
        Answer(Run(trip, trip, respondToDriverRequest(trip, u, i, action)))

CancelTrip ==
    \E u \in Users, reason \in Reasons :
        /\ RequireDriver(u)
        /\ Answer(Run(trip, trip, cancelTrip(trip, u, reason)))

AdminCancelTrip ==
    \E u \in Users, reason \in Reasons :
        Answer(Run(trip, trip, adminCancelTrip(trip, u, reason)))

UpdateTripStatus ==
    \E u \in Users, status \in RequestableStatuses :
        /\ RequireDriver(u)
        /\ Answer(Run(trip, trip, updateTripStatus(trip, u, status)))

CompleteTrip ==
    \E u \in Users :
        Answer(Run(trip, trip, completeTrip(trip, u)))

UpdateTrip ==
    \E u \in Users, body \in Bodies :
        /\ RequireDriver(u)
        /\ Answer(updateTripNotified(trip, trip, u, body, TRUE))

DeleteTrip ==
    \E u \in Users :
        Answer(deleteTrip(trip, trip, u))

CreatePayment ==
    \E u \in Payers :
        LET o == createPayment(trip, payments, u)
        IN  /\ o.pays # payments
            /\ Len(payments) < MaxPayments
            /\ payments' = o.pays
            /\ UNCHANGED <<trip, inflight>>

VnpayReturn ==
    \E cb \in Callbacks :
        LET o == Settled(trip, payments, cb)
        IN  /\ o.pays # payments \/ o.doc # trip
            /\ payments' = o.pays
            /\ trip' = o.doc
            /\ UNCHANGED inflight

CancelPayment ==
    \E u \in Payers, id \in 1..MaxPayments :
        /\ cancelPayment(payments, u, id).pays # payments
        /\ payments' = cancelPayment(payments, u, id).pays
        /\ UNCHANGED <<trip, inflight>>

TimePasses ==
    /\ NotExpired(payments) # {}
    /\ payments' = [payments EXCEPT ![FirstOf(NotExpired(payments))].expired = TRUE]
    /\ UNCHANGED <<trip, inflight>>

Next ==
    \/ DriverRequestBooking
    \/ RespondToDriverRequest
    \/ CancelTrip
    \/ AdminCancelTrip
    \/ UpdateTripStatus
    \/ CompleteTrip
    \/ UpdateTrip
    \/ DeleteTrip

Spec == Init /\ [][Next]_vars

(***************************************************************************)
(* SpecPay: the payment handlers, one step each, together with the booking *)
(* handlers that bring a booking to its driver and take it away again.     *)
(***************************************************************************)
NextPay ==
    \/ DriverRequestBooking
    \/ RespondToDriverRequest
    \/ CancelTrip
    \/ DeleteTrip
    \/ CreatePayment
    \/ VnpayReturn
    \/ CancelPayment

SpecPay == Init /\ [][NextPay]_vars

(***************************************************************************)
(* SpecCheckout: several checkouts for one confirmed booking, their        *)
(* callbacks and the 15 minute TTL of a pending Payment.                   *)
(***************************************************************************)
MaxCheckouts == 2

Checkout ==
    \E u \in Payers :
        LET o == createPayment(trip, payments, u)
        IN  /\ o.pays # payments
            /\ Len(payments) < MaxCheckouts
            /\ payments' = o.pays
            /\ UNCHANGED <<trip, inflight>>

CheckoutCallbacks ==
    [isValid : {TRUE}, txnRef : 1..MaxCheckouts,
     responseCode : ResponseCodes, transactionStatus : {"00"}]

CheckoutReturn ==
    \E cb \in CheckoutCallbacks :
        LET o == Settled(trip, payments, cb)
        IN  /\ o.pays # payments \/ o.doc # trip
            /\ payments' = o.pays
            /\ trip' = o.doc
            /\ UNCHANGED inflight

NextCheckout ==
    \/ DriverRequestBooking
    \/ RespondToDriverRequest
    \/ Checkout
    \/ CheckoutReturn
    \/ TimePasses

SpecCheckout == Init /\ [][NextCheckout]_vars

(***************************************************************************)
(* SpecConc: requests overlap.  A handler loads the booking (Begin), and   *)
(* after its awaits writes what it changed on the loaded copy (Finish);    *)
(* between the two, other requests load and write.  A slot keeps the       *)
(* answer of its last request until it takes the next one.                 *)
(***************************************************************************)
ConcRequests ==
    {[op |-> "driverRequestBooking", user |-> "d1", price |-> 1],
     [op |-> "driverRequestBooking", user |-> "d2", price |-> 2]}
        \cup [op : {"respondToDriverRequest"}, user : {"p1"},
              requestId : 1..MaxBids, action : {"accept", "decline"}]

Handle(req, t) ==
    CASE req.op = "driverRequestBooking" -> driverRequestBooking(t, req.user, req.price)
      [] req.op = "respondToDriverRequest" ->
            respondToDriverRequest(t, req.user, req.requestId, req.action)

Begin(s) ==
    \E req \in ConcRequests :
        /\ inflight[s].op \in {"idle", "done"}
        /\ inflight' = [inflight EXCEPT ![s] = [op |-> "loaded", req |-> req, snap |-> trip]]
        /\ UNCHANGED <<trip, payments>>

Finish(s) ==
    /\ inflight[s].op = "loaded"
    /\ LET req == inflight[s].req
           snap == inflight[s].snap
           o == Handle(req, snap)
           r == Run(trip, snap, o)
       IN  /\ o.doc # snap => Len(trip.driverRequests) + Len(o.doc.driverRequests)
                                  - Len(snap.driverRequests) <= MaxBids
           /\ trip' = r.doc
           /\ inflight' = [inflight EXCEPT ![s] = [op |-> "done", req |-> req, res |-> r.res]]
           /\ UNCHANGED payments

NextConc ==
    \E s \in Slots : Begin(s) \/ Finish(s)

SpecConc == Init /\ [][NextConc]_vars

(***************************************************************************)
(* Price calculation.  JavaScript numbers are IEEE 754 binary64: a value    *)
(* is m * 2^e with m a significand of Precision bits (least significant     *)
(* bit first, top bit set), and every product and quotient is rounded to    *)
(* the nearest such value, ties to the even significand.                    *)
(***************************************************************************)
MaxKm == 12

Precision == 53

LimbBits == 14

Limb == 2^LimbBits

Zero == [m |-> << >>, e |-> 0]

RECURSIVE Bits(_, _)
\* the n low bits of k
Bits(k, n) == IF n = 0 THEN << >> ELSE <<k % 2>> \o Bits(k \div 2, n - 1)

RECURSIVE Value(_)
Value(b) == IF b = << >> THEN 0 ELSE b[1] + 2 * Value(Tail(b))

Zeros(n) == [i \in 1..n |-> 0]

RECURSIVE TopFrom(_, _)
\* the index of the highest set bit among b[1..i], 0 if there is none
TopFrom(b, i) == IF i = 0 THEN 0 ELSE IF b[i] = 1 THEN i ELSE TopFrom(b, i - 1)

RECURSIVE Inc(_)
Inc(b) ==
    IF b = << >> THEN <<1>>
    ELSE IF b[1] = 0 THEN <<1>> \o Tail(b)
    ELSE <<0>> \o Inc(Tail(b))

\* the binary64 value nearest to b * 2^e (plus a non-zero fraction below its
\* last bit when sticky), ties to even
Round(b, e, sticky) ==
    LET n == TopFrom(b, Len(b))
    IN  IF n = 0 THEN Zero
        ELSE IF n <= Precision
        THEN [m |-> Zeros(Precision - n) \o SubSeq(b, 1, n), e |-> e - (Precision - n)]
        ELSE LET k == n - Precision
                 kept == SubSeq(b, k + 1, n)
                 rest == sticky \/ \E i \in 1..(k - 1) : b[i] = 1
                 up == b[k] = 1 /\ (rest \/ kept[1] = 1)
                 inc == Inc(kept)
             IN  IF ~up THEN [m |-> kept, e |-> e + k]
                 ELSE IF Len(inc) > Precision
                 THEN [m |-> SubSeq(inc, 2, Precision + 1), e |-> e + k + 1]
                 ELSE [m |-> inc, e |-> e + k]

\* an integer below 2^31 as a number
FromInt(n) == Round(Bits(n, 31), 0, FALSE)

\* the significand in limbs of LimbBits bits
Limbs(m) ==
    [i \in 1..4 |->
        Value(SubSeq(m, LimbBits * (i - 1) + 1,
                     IF LimbBits * i < Len(m) THEN LimbBits * i ELSE Len(m)))]

RECURSIVE Column(_, _, _, _)
Column(a, b, k, i) ==
    IF i > 4 THEN 0
    ELSE (IF k + 1 - i \in 1..4 THEN a[i] * b[k + 1 - i] ELSE 0) + Column(a, b, k, i + 1)

RECURSIVE Product(_, _, _, _)
\* the bits of the exact product of two significands, from column k on
Product(a, b, k, carry) ==
    IF k > 7 THEN Bits(carry, LimbBits)
    ELSE LET sum == Column(a, b, k, 1) + carry
         IN  Bits(sum % Limb, LimbBits) \o Product(a, b, k + 1, sum \div Limb)

\* x * y
FMul(x, y) ==
    IF x = Zero \/ y = Zero THEN Zero
    ELSE Round(Product(Limbs(x.m), Limbs(y.m), 1, 0), x.e + y.e, FALSE)

RECURSIVE LongDiv(_, _)
\* quotient (in bits) and remainder of a number in limbs by an integer k
LongDiv(l, k) ==
    IF l = << >> THEN [q |-> << >>, r |-> 0]
    ELSE LET hi == LongDiv(Tail(l), k)
             cur == hi.r * Limb + l[1]
         IN  [q |-> Bits(cur \div k, LimbBits) \o hi.q, r |-> cur % k]

\* x / k for an integer k
FDiv(x, k) ==
    IF x = Zero THEN Zero
    ELSE LET d == LongDiv(<<0, 0, 0, 0>> \o Limbs(x.m), k)
         IN  Round(d.q, x.e - 4 * LimbBits, d.r # 0)

\* the decimal literal n/k of the source text, e.g. 1.2 = Literal(12, 10)
Literal(n, k) == FDiv(FromInt(n), k)

\* Math.ceil, for values below 2^31
Ceil(x) ==
    IF x = Zero THEN 0
    ELSE IF x.e >= 0 THEN Value(Zeros(x.e) \o x.m)
    ELSE IF 0 - x.e >= Precision THEN 1
    ELSE Value(SubSeq(x.m, 1 - x.e, Precision))
            + (IF \E i \in 1..(0 - x.e) : x.m[i] = 1 THEN 1 ELSE 0)

VehicleTypes == {"motorcycle", "car", "suv", "luxury"}

getBaseRateByVehicleType(vehicleType) ==
    CASE vehicleType = "motorcycle" -> 5000
      [] vehicleType = "car" -> 10000
      [] vehicleType = "suv" -> 12000
      [] vehicleType = "luxury" -> 15000
      [] OTHER -> 10000

getPeakHourMultiplier(hour) ==
    IF (hour >= 7 /\ hour <= 9) \/ (hour >= 16 /\ hour <= 19)
    THEN Literal(12, 10)
    ELSE FromInt(1)

getVehicleQualityMultiplier(vehicleYear, currentYear) ==
    LET age == currentYear - vehicleYear
    IN  IF age <= 2 THEN Literal(11, 10)
        ELSE IF age <= 5 THEN FromInt(1)
        ELSE Literal(9, 10)

\* distanceInKm stands for the result of calculateDistance, hour for
\* new Date(departureTime).getHours(), currentYear for the clock; a vehicle
\* type "unset" or a year 0 is a missing (falsy) field
calculatePrice(distanceInKm, vehicle, hour, currentYear) ==
    LET vehicleType == IF vehicle.type = "unset" THEN "car" ELSE vehicle.type
        vehicleYear == IF vehicle.year = 0 THEN currentYear - 3 ELSE vehicle.year
        baseRate == FromInt(getBaseRateByVehicleType(vehicleType))
        peakMultiplier == getPeakHourMultiplier(hour)
        qualityMultiplier == getVehicleQualityMultiplier(vehicleYear, currentYear)
        finalPrice == FMul(FMul(FMul(FromInt(distanceInKm), baseRate), peakMultiplier),
                           qualityMultiplier)
    IN  Ceil(FMul(FromInt(Ceil(FDiv(finalPrice, 1000))), FromInt(1000)))

Hours == {6, 7, 9, 10, 15, 16, 19, 20}

ClockYears == {2026}

VehicleYears == {0, 2020, 2021, 2023, 2024, 2026}

PriceInputs ==
    [distanceInKm : 0..MaxKm,
     vehicle : [type : VehicleTypes \cup {"truck", "unset"}, year : VehicleYears],
     hour : Hours,
     currentYear : ClockYears]

(***************************************************************************)
(* SpecPrice: one call of calculatePrice on each input.                     *)
(***************************************************************************)
InitPrice ==
    /\ trip = NewTrip(0)
    /\ payments = << >>
    /\ \E req \in PriceInputs :
          inflight = [s \in Slots |-> IF s = 1 THEN [op |-> "call", req |-> req]
                                               ELSE [op |-> "idle"]]

CalculatePrice ==
    /\ inflight[1].op = "call"
    /\ LET req == inflight[1].req
       IN  inflight' = [inflight EXCEPT ![1] =
               [op |-> "done", req |-> req,
                res |-> calculatePrice(req.distanceInKm, req.vehicle, req.hour,
                                       req.currentYear)]]
    /\ UNCHANGED <<trip, payments>>

NextPrice == CalculatePrice

SpecPrice == InitPrice /\ [][NextPrice]_vars

(***************************************************************************)
(* Properties                                                              *)
(***************************************************************************)
AcceptedRequests(t) ==
    {i \in DOMAIN t.driverRequests : t.driverRequests[i].status = "accepted"}

\* C1: in every reachable state of a booking, after any sequence and any
\* interleaving of driverRequestBooking, respondToDriverRequest, updateTrip,
\* cancelTrip and the payment operations, at most one entry of driverRequests
\* has status accepted.
C1_AtMostOneAccepted == Cardinality(AcceptedRequests(trip)) <= 1

\* slot s answers in this step a respondToDriverRequest of the given action with 200
Answered200(s, action) ==
    /\ inflight[s].op = "loaded"
    /\ inflight[s].req.op = "respondToDriverRequest"
    /\ inflight[s].req.action = action
    /\ inflight'[s].op = "done"
    /\ inflight'[s].res = "200"

AcceptApplied(i) ==
    /\ i \in DOMAIN trip'.driverRequests
    /\ trip'.driverRequests[i].status = "accepted"
    /\ trip'.driverRequests[i].respondedAt
    /\ \A j \in DOMAIN trip.driverRequests \ {i} :
          trip.driverRequests[j].status = "pending"
              => /\ trip'.driverRequests[j].status = "declined"
                 /\ trip'.driverRequests[j].respondedAt
    /\ trip'.status = "confirmed"
    /\ trip'.driver = trip.driverRequests[i].driver
    /\ trip'.price = trip.driverRequests[i].proposedPrice
    /\ trip'.confirmedAt

\* C2: a successful respondToDriverRequest with action accept on bid B is one
\* write: in the stored booking right after it B is accepted, every other bid
\* that was pending is declined, and status = confirmed, driver = B.driver,
\* price = B.proposedPrice and confirmedAt are all set.
C2_AcceptIsOneTransition ==
    [][\A s \in Slots :
          Answered200(s, "accept") => AcceptApplied(inflight[s].req.requestId)]_vars

\* an accept has been answered 200 on a booking with a competing bid
C2_Witness ==
    \E s \in Slots :
        /\ inflight[s].op = "done"
        /\ inflight[s].res = "200"
        /\ inflight[s].req.op = "respondToDriverRequest"
        /\ inflight[s].req.action = "accept"
        /\ trip.status = "confirmed"
        /\ trip.price = 2
        /\ \E j \in DOMAIN trip.driverRequests : trip.driverRequests[j].status = "declined"

AnsweredAccept200(s) ==
    /\ inflight[s].op = "done"
    /\ inflight[s].res = "200"
    /\ inflight[s].req.op = "respondToDriverRequest"
    /\ inflight[s].req.action = "accept"

\* C3: of two respondToDriverRequest calls that overlap on the same
\* pending_driver booking at most one succeeds, so the booking never ends
\* with two successful resolutions that each accepted a bid.
C3_OnlyOneAcceptSucceeds == ~(\A s \in Slots : AnsweredAccept200(s))

\* C4: a booking never holds two bids of the same driver, also when the
\* driver's submissions interleave.
C4_OneBidPerDriver ==
    \A i, j \in DOMAIN trip.driverRequests :
        i # j => trip.driverRequests[i].driver # trip.driverRequests[j].driver

\* C5: driverRequestBooking succeeds only while status = pending_driver;
\* against a stored booking in any other status every submission is refused
\* and adds no bid.
C5_BidOnlyWhilePendingDriver ==
    \A d \in Users, p \in Prices :
        trip.status # "pending_driver"
            => LET r == Run(trip, trip, driverRequestBooking(trip, d, p))
               IN  r.res # "200" /\ r.doc = trip

\* a driver who could otherwise bid is refused on a confirmed booking
C5_Witness ==
    /\ trip.exists
    /\ trip.status = "confirmed"
    /\ trip.driver = "d1"
    /\ trip.maxPrice = 0
    /\ ~(\E i \in DOMAIN trip.driverRequests : trip.driverRequests[i].driver = "d2")
    /\ Run(trip, trip, driverRequestBooking(trip, "d2", 1)).res = "400"

OverBudgetRefused ==
    \A d \in Users, p \in Prices :
        (trip.maxPrice # 0 /\ p > trip.maxPrice)
            => LET r == Run(trip, trip, driverRequestBooking(trip, d, p))
               IN  /\ r.res \in {"400", "403", "404"}
                   /\ r.doc = trip
                   /\ (/\ trip.exists
                       /\ trip.status = "pending_driver"
                       /\ d \in {"d1", "d2"}
                       /\ \A i \in DOMAIN trip.driverRequests :
                             trip.driverRequests[i].driver # d) => r.res = "400"

NewBidsWithinBudget ==
    (trip'.exists /\ Len(trip'.driverRequests) > Len(trip.driverRequests))
        => \A i \in (DOMAIN trip'.driverRequests) \ (DOMAIN trip.driverRequests) :
              trip.maxPrice # 0 => trip'.driverRequests[i].proposedPrice <= trip.maxPrice

\* C6: when maxPrice is set, a submission with proposedPrice > maxPrice is
\* refused and stores no bid, neither at the proposed price nor capped, so
\* no step stores a new bid above the booking's maxPrice.
C6_NoBidAboveMaxPrice == []OverBudgetRefused /\ [][NewBidsWithinBudget]_vars

\* a booking with a budget holds a bid within it and refuses one above it
C6_Witness ==
    /\ trip.status = "pending_driver"
    /\ trip.maxPrice = 1
    /\ Len(trip.driverRequests) = 1
    /\ trip.driverRequests[1].driver = "d1"
    /\ Run(trip, trip, driverRequestBooking(trip, "d2", 2)).res = "400"
    /\ Run(trip, trip, driverRequestBooking(trip, "d2", 1)).res = "200"

C8_ResolvedBidImmutable ==
    [][\A i \in DOMAIN trip.driverRequests :
          (/\ trip.driverRequests[i].status \in {"accepted", "declined"}
           /\ trip'.exists
           /\ i \in DOMAIN trip'.driverRequests)
              => trip'.driverRequests[i].status = trip.driverRequests[i].status]_vars

DeclineApplied(i) ==
    /\ i \in DOMAIN trip.driverRequests
    /\ trip' = [trip EXCEPT !.driverRequests[i] =
                                [@ EXCEPT !.status = "declined", !.respondedAt = TRUE]]
    /\ trip.status = "pending_driver"
          => \A d \in {"d1", "d2"}, p \in Prices :
                (/\ ~(\E j \in DOMAIN trip.driverRequests : trip.driverRequests[j].driver = d)
                 /\ (trip.maxPrice = 0 \/ p <= trip.maxPrice))
                    => driverRequestBooking(trip', d, p).res = "200"

\* C9: a successful respondToDriverRequest with action decline on bid B
\* changes only B (status declined, respondedAt): status, driver, price and
\* every other bid stay as stored, and a pending_driver booking still takes
\* bids of other drivers.
C9_DeclineChangesOnlyB ==
    [][\A s \in Slots :
          Answered200(s, "decline") => DeclineApplied(inflight[s].req.requestId)]_vars

\* a decline has been answered 200 and the booking is still open with another bid
C9_Witness ==
    \E s \in Slots :
        /\ inflight[s].op = "done"
        /\ inflight[s].res = "200"
        /\ inflight[s].req.op = "respondToDriverRequest"
        /\ inflight[s].req.action = "decline"
        /\ trip.status = "pending_driver"
        /\ Len(trip.driverRequests) = 2
        /\ trip.driverRequests[inflight[s].req.requestId].status = "declined"
        /\ \E j \in DOMAIN trip.driverRequests : trip.driverRequests[j].status = "pending"

LifecycleStep(from, to) ==
    \/ from = to
    \/ <<from, to>> \in {<<"pending_driver", "confirmed">>, <<"confirmed", "paid">>,
                         <<"paid", "in_progress">>, <<"in_progress", "completed">>}
    \/ to = "cancelled" /\ from \notin {"completed", "cancelled"}

\* C10: the status of a stored booking only changes along pending_driver ->
\* confirmed -> paid -> in_progress -> completed, one step at a time, or
\* into cancelled from a status other than completed and cancelled.
C10_StatusFollowsLifecycle ==
    [][(trip.exists /\ trip'.exists) => LifecycleStep(trip.status, trip'.status)]_vars

\* C11: a verified success callback for a pending Payment of a confirmed
\* booking moves the booking from confirmed to paid: every step that
\* completes such a Payment leaves the booking in status paid.
C11_PaidAfterSuccess ==
    [][\A i \in DOMAIN payments :
          (/\ payments[i].status = "pending"
           /\ payments'[i].status = "completed"
           /\ trip.exists
           /\ trip.status = "confirmed")
              => trip'.status = "paid"]_vars

Started(t) == [t EXCEPT !.status = "in_progress", !.actualDepartureTime = TRUE]

Arrived(t) == [t EXCEPT !.status = "completed", !.actualArrivalTime = TRUE]

ProgressStep(r, granted, target) ==
    /\ r.res = "200" <=> granted
    /\ r.doc = (IF r.res = "200" THEN target ELSE trip)

CancelledWithReason(r) ==
    /\ r.res = "200"
    /\ r.doc.status = "cancelled"
    /\ r.doc.cancellationReason # "unset"

\* C13: the requester can cancel a pending_driver booking and the assigned
\* driver a confirmed, paid or in_progress one, which sets status cancelled
\* and cancellationReason; cancelling a completed or cancelled booking is
\* refused and leaves it unchanged.
C13_CancelFromNonTerminal ==
    /\ (trip.exists /\ trip.status = "pending_driver")
          => CancelledWithReason(Run(trip, trip, cancelTrip(trip, trip.requestedBy, "given")))
    /\ (trip.exists /\ trip.status \in {"confirmed", "paid", "in_progress"}
                    /\ trip.driver # NoUser)
          => CancelledWithReason(Run(trip, trip, cancelTrip(trip, trip.driver, "given")))
    /\ (trip.exists /\ trip.status \in {"completed", "cancelled"})
          => \A u \in Users, reason \in Reasons :
                /\ Run(trip, trip, cancelTrip(trip, u, reason)) = [res |-> "400", doc |-> trip]
                    \/ Run(trip, trip, cancelTrip(trip, u, reason)) = [res |-> "403", doc |-> trip]
                    \/ Run(trip, trip, cancelTrip(trip, u, reason)) = [res |-> "500", doc |-> trip]
                /\ Run(trip, trip, updateTripStatus(trip, u, "cancelled")).doc = trip
                /\ Run(trip, trip, adminCancelTrip(trip, u, reason)).doc = trip

MayMutate(t, u) ==
    IF t.status = "pending_driver" THEN u = t.requestedBy ELSE u = t.driver

Refused403(r) == r.res = "403" /\ r.doc = trip

\* C14: updateTrip, deleteTrip and cancelTrip take effect only for the
\* requester while the booking is pending_driver and only for the assigned
\* driver from confirmed on; a call by any other user is answered 403 and
\* leaves the booking unchanged.
C14_OnlyEntitledActorMutates ==
    \A u \in Users :
        (trip.exists /\ ~MayMutate(trip, u))
            => /\ \A body \in Bodies : Refused403(updateTrip(trip, trip, u, body))
               /\ Refused403(deleteTrip(trip, trip, u))
               /\ \A reason \in Reasons : Refused403(Run(trip, trip, cancelTrip(trip, u, reason)))

MayDelete(t, u) ==
    \/ t.status = "pending_driver" /\ u = t.requestedBy
    \/ t.status = "confirmed" /\ AcceptedPassengers(t) = {} /\ u = t.driver

\* C15: deleteTrip removes a booking only when it is pending_driver and the
\* caller is the requester, or confirmed without accepted passengers and the
\* caller is the assigned driver; every other call fails and the booking is
\* still stored unchanged.
C15_DeleteOnlyWhenAllowed ==
    \A u \in Users :
        (trip.exists /\ ~MayDelete(trip, u))
            => LET r == deleteTrip(trip, trip, u)
               IN  r.res # "200" /\ r.doc = trip

Terminal(pay) == pay.status \in {"completed", "failed", "cancelled"}

\* C16: a Payment in a terminal status is not re-transitioned by vnpayReturn:
\* a verified callback for its transaction reference, success or failure,
\* leaves the Payment's status and the booking's roster as they are.
C16_TerminalPaymentFrozen ==
    \A cb \in Callbacks :
        (cb.isValid /\ cb.txnRef \in DOMAIN payments /\ Terminal(payments[cb.txnRef]))
            => LET o == Settled(trip, payments, cb)
               IN  /\ o.pays[cb.txnRef].status = payments[cb.txnRef].status
                   /\ o.doc.passengers = trip.passengers

\* C17: applying the same verified callback twice leaves the Payments and
\* the booking as applying it once does, and after a success callback the
\* payer is in the roster of a stored booking exactly once.
C17_CallbackIdempotent ==
    \A cb \in Callbacks :
        cb.isValid
            => LET once == Settled(trip, payments, cb)
                   twice == Settled(once.doc, once.pays, cb)
               IN  /\ twice.pays = once.pays
                   /\ twice.doc = once.doc
                   /\ (/\ cb.txnRef \in DOMAIN payments
                       /\ IsSuccessTransaction(cb.responseCode, cb.transactionStatus)
                       /\ trip.exists)
                          => Cardinality(PassengerOf(twice.doc, payments[cb.txnRef].user)) = 1

\* a success callback has been applied: its Payment is completed, the payer is
\* in the roster, and the same callback applied again changes nothing
C17_Witness ==
    /\ trip.exists
    /\ Len(payments) >= 1
    /\ payments[1].status = "completed"
    /\ Len(trip.passengers) = 1
    /\ trip.passengers[1] = PaidPassenger(payments[1].user, 1)
    /\ LET cb == [isValid |-> TRUE, txnRef |-> 1, responseCode |-> "00",
                  transactionStatus |-> "00"]
       IN  Settled(trip, payments, cb) = [res |-> "success", pays |-> payments, doc |-> trip]

\* C18: a callback whose signature does not verify, or whose transaction
\* reference belongs to no Payment, ends in the error redirect and changes
\* no Payment and no booking, whatever its other fields say.
C18_UntrustedCallbackIgnored ==
    \A cb \in Callbacks :
        (~cb.isValid \/ cb.txnRef \notin DOMAIN payments)
            => Settled(trip, payments, cb) = [res |-> "error", pays |-> payments, doc |-> trip]

\* a pending Payment of a stored booking gets a success callback with a bad
\* signature, and a well-signed one for a reference no Payment has
C18_Witness ==
    /\ trip.exists
    /\ Len(payments) = 1
    /\ payments[1].status = "pending"
    /\ Settled(trip, payments, [isValid |-> FALSE, txnRef |-> 1, responseCode |-> "00",
                                transactionStatus |-> "00"]).res = "error"
    /\ Settled(trip, payments, [isValid |-> TRUE, txnRef |-> 2, responseCode |-> "00",
                                transactionStatus |-> "00"]).res = "error"

\* C19: a verified failure callback for a pending Payment sets that Payment
\* to failed with the message of the gateway's response code as its reason,
\* and leaves every other Payment and the whole booking as they are.
C19_FailureLeavesBooking ==
    \A cb \in Callbacks :
        (/\ cb.isValid
         /\ cb.txnRef \in DOMAIN payments
         /\ payments[cb.txnRef].status = "pending"
         /\ ~(cb.responseCode = "00" /\ cb.transactionStatus = "00"))
            => LET o == Settled(trip, payments, cb)
               IN  /\ o.res = "failed"
                   /\ o.pays = [payments EXCEPT ![cb.txnRef].status = "failed",
                                                ![cb.txnRef].note = GetStatusMessage(cb.responseCode)]
                   /\ o.pays[cb.txnRef].note # "unset"
                   /\ o.doc = trip

\* a failure callback (code 24) has been applied to the Payment of a confirmed booking
C19_Witness ==
    /\ trip.exists
    /\ trip.status = "confirmed"
    /\ trip.passengers = << >>
    /\ Len(payments) = 1
    /\ payments[1].status = "failed"
    /\ payments[1].note = GetStatusMessage("24")
    /\ ~payments[1].completedAt

PayerEntries(t, u) == {i \in DOMAIN t.passengers : t.passengers[i].user = u}

RosterAfterSuccess(before, after, u, paymentId) ==
    LET entry == [user |-> u, status |-> "accepted", paymentStatus |-> "completed",
                  paymentId |-> paymentId]
    IN  /\ Cardinality(PayerEntries(after, u)) = 1
        /\ \A i \in PayerEntries(after, u) : after.passengers[i] = entry
        /\ IF PayerEntries(before, u) = {}
           THEN after.passengers = Append(before.passengers, entry)
           ELSE /\ Len(after.passengers) = Len(before.passengers)
                /\ \A i \in DOMAIN before.passengers :
                      before.passengers[i].user # u
                          => after.passengers[i] = before.passengers[i]

\* C20: a verified success callback for a Payment of a stored booking sets
\* the Payment to completed with completedAt, and the roster then holds
\* exactly one entry of the payer, accepted, paymentStatus completed, with
\* that Payment's id: appended if the payer was absent, updated in place
\* otherwise; nothing else of the booking changes.
C20_SuccessCompletesAndEnrols ==
    \A cb \in Callbacks :
        (/\ cb.isValid
         /\ cb.txnRef \in DOMAIN payments
         /\ cb.responseCode = "00" /\ cb.transactionStatus = "00"
         /\ trip.exists)
            => LET o == Settled(trip, payments, cb)
                   u == payments[cb.txnRef].user
               IN  /\ o.res = "success"
                   /\ o.pays[cb.txnRef].status = "completed"
                   /\ o.pays[cb.txnRef].completedAt
                   /\ \A i \in DOMAIN payments : i # cb.txnRef => o.pays[i] = payments[i]
                   /\ RosterAfterSuccess(trip, o.doc, u, cb.txnRef)
                   /\ [o.doc EXCEPT !.passengers = trip.passengers, !.v = trip.v] = trip

\* a success callback has completed the requester's Payment and enrolled them
C20_Witness ==
    /\ trip.exists
    /\ trip.status = "confirmed"
    /\ Len(payments) = 1
    /\ payments[1].user = "p1"
    /\ payments[1].status = "completed"
    /\ payments[1].completedAt
    /\ payments[1].note = "unset"
    /\ trip.passengers = <<[user |-> "p1", status |-> "accepted",
                            paymentStatus |-> "completed", paymentId |-> 1]>>

Enrolled(t, u) ==
    /\ t.exists
    /\ \E i \in DOMAIN t.passengers :
          /\ t.passengers[i].user = u
          /\ t.passengers[i].status = "accepted"
          /\ t.passengers[i].paymentStatus = "completed"

\* C21: the completion of a Payment and the roster update are one
\* transaction: in no state is a Payment completed while its payer is not in
\* the booking's roster as accepted with paymentStatus completed.
C21_CompletedPayerEnrolled ==
    \A i \in DOMAIN payments :
        payments[i].status = "completed" => Enrolled(trip, payments[i].user)

CheckoutAllowed(t, u) ==
    /\ t.exists
    /\ t.status = "confirmed"
    /\ u # t.driver
    /\ Cardinality({i \in DOMAIN t.passengers : t.passengers[i].status = "accepted"})
          < t.availableSeats

\* C22: createPayment creates a Payment only on a confirmed booking, for a
\* caller who is not its driver, while accepted passengers are fewer than
\* availableSeats; any other call is refused as a client error and creates
\* no Payment.
C22_CheckoutOnlyWhenConfirmed ==
    \A u \in Users :
        LET o == createPayment(trip, payments, u)
        IN  /\ o.res = "200" => CheckoutAllowed(trip, u)
            /\ ~CheckoutAllowed(trip, u)
                  => o.res \in {"400", "403", "404"} /\ o.pays = payments

LivePayment(pay, u) ==
    /\ pay.user = u
    /\ \/ pay.status = "completed"
       \/ pay.status = "pending" /\ ~pay.expired

\* C23: for a user who may check out, createPayment is refused exactly when
\* a completed or a non-expired pending Payment of that user exists, whatever
\* other Payments exist, so no user ever holds two non-expired pending
\* Payments for the booking.
C23_BlockedByLivePaymentOnly ==
    /\ \A u \in Payers :
          (trip.exists /\ trip.driver \notin {NoUser, u} /\ ~TripFull(trip))
              => LET o == createPayment(trip, payments, u)
                     blocked == \E i \in DOMAIN payments : LivePayment(payments[i], u)
                 IN  IF blocked THEN o.res = "400" /\ o.pays = payments
                     ELSE o.res = "200"
    /\ \A i, j \in DOMAIN payments :
          (/\ i # j
           /\ payments[i].user = payments[j].user
           /\ payments[i].status = "pending" /\ ~payments[i].expired)
              => ~(payments[j].status = "pending" /\ ~payments[j].expired)

\* C24: cancelPayment sets a Payment to cancelled only for the Payment's own
\* user while its status is pending; a call by another user or on a Payment
\* in any other status fails and leaves every Payment unchanged.
C24_CancelOwnPendingOnly ==
    \A u \in Users, id \in DOMAIN payments :
        LET o == cancelPayment(payments, u, id)
        IN  IF u = payments[id].user /\ payments[id].status = "pending"
            THEN o.res = "200" /\ o.pays = [payments EXCEPT ![id].status = "cancelled"]
            ELSE o.res \in {"400", "403"} /\ o.pays = payments

\* a completed Payment: its user's cancellation is refused with 400, another
\* user's with 403
C24_Witness ==
    /\ Len(payments) = 1
    /\ payments[1].user = "p1"
    /\ payments[1].status = "completed"
    /\ cancelPayment(payments, "p1", 1) = [res |-> "400", pays |-> payments]
    /\ cancelPayment(payments, "d2", 1) = [res |-> "403", pays |-> payments]

\* C25: the roster never holds more entries with status accepted than the
\* booking has availableSeats, also when several users check out before any
\* of their payments completes.
C25_AcceptedWithinSeats ==
    trip.exists
        => Cardinality({i \in DOMAIN trip.passengers : trip.passengers[i].status = "accepted"})
              <= trip.availableSeats

\* C26: the booking's price is 0 while no bid is accepted and equals the
\* accepted bid's proposedPrice from then on; no operation (updateTrip,
\* payment, status change) gives it another value.
C26_PriceIsAcceptedBid ==
    trip.exists
        => IF AcceptedRequests(trip) = {}
           THEN trip.price = 0
           ELSE \E i \in AcceptedRequests(trip) :
                    trip.price = trip.driverRequests[i].proposedPrice

\* C29: a booking whose status is not pending_driver has no bid with status
\* pending, whichever of the driver, the requester or an administrator moved
\* it out of pending_driver.
C29_NoPendingBidOnceResolved ==
    (trip.exists /\ trip.status # "pending_driver")
        => \A i \in DOMAIN trip.driverRequests :
               trip.driverRequests[i].status # "pending"

\* C30: the driver of a booking is never its requester, whatever sequence of
\* driverRequestBooking and respondToDriverRequest a user of role 'both'
\* performs.
C30_DriverIsNotRequester ==
    trip.exists => trip.driver # trip.requestedBy

\* the operation answers and persists the same with a failing notification
\* store as with a working one
Swallowed(o, up) ==
    Run(trip, trip, o).res = "200" => RunWith(trip, trip, o, up) = Run(trip, trip, o)

\* C27: a notification failure does not abort a booking operation: in
\* cancelTrip, completeTrip, updateTripStatus and updateTrip the mutation is
\* persisted and the operation still reports success.
C27_NotificationFailureSwallowed ==
    \A u \in Users, up \in BOOLEAN :
        /\ \A reason \in Reasons : Swallowed(cancelTrip(trip, u, reason), up)
        /\ Swallowed(completeTrip(trip, u), up)
        /\ \A status \in RequestableStatuses : Swallowed(updateTripStatus(trip, u, status), up)
        /\ \A body \in Bodies :
              updateTrip(trip, trip, u, body).res = "200"
                  => updateTripNotified(trip, trip, u, body, up) = updateTrip(trip, trip, u, body)

\* the multipliers of the price formula, in tenths
PeakTenths(hour) == IF hour \in 7..9 \cup 16..19 THEN 12 ELSE 10

QualityTenths(req) ==
    LET year == IF req.vehicle.year = 0 THEN req.currentYear - 3 ELSE req.vehicle.year
        age == req.currentYear - year
    IN  IF age <= 2 THEN 11 ELSE IF age <= 5 THEN 10 ELSE 9

\* 100 * distance * baseRate * peakMultiplier * qualityMultiplier
Hundredfold(req) ==
    req.distanceInKm
        * getBaseRateByVehicleType(IF req.vehicle.type = "unset" THEN "car" ELSE req.vehicle.type)
        * PeakTenths(req.hour) * QualityTenths(req)

\* C28: the price calculatePrice returns is non-negative, a multiple of
\* 1000, and the smallest multiple of 1000 that is at least
\* distance * baseRate * peakMultiplier * qualityMultiplier; the same inputs
\* at the same clock give the same price.
C28_PriceRoundedUp ==
    inflight[1].op = "done"
        => LET price == inflight[1].res
               exact == Hundredfold(inflight[1].req)
           IN  /\ price >= 0
               /\ price % 1000 = 0
               /\ 100 * price >= exact
               /\ 100 * (price - 1000) < exact
               /\ price = calculatePrice(inflight[1].req.distanceInKm, inflight[1].req.vehicle,
                                         inflight[1].req.hour, inflight[1].req.currentYear)

====
